---- MODULE Spec2Model ----
(***************************************************************************)
(* Model of the DeltaRCM vegetation sub-model                              *)
(* (src/02_deltas/VegetationModel.py, class VegetationModel).              *)
(*                                                                         *)
(* Real numbers are fixed-point integers: a dimensionless or length value  *)
(* v is stored as v * Scale (One stands for 1.0).  Times are whole         *)
(* seconds.  The per-second growth rate veg_r is stored in units of        *)
(* 1 / RateScale per second.  Products and quotients truncate.             *)
(*                                                                         *)
(* Grid fields are functions over Cells(L, W), the L x W grid of the host. *)
(***************************************************************************)
EXTENDS Integers, FiniteSets, Sequences, TLC

Scale == 10 ^ 2
One == Scale
RateScale == 10 ^ 9

\* pyDeltaRCM.shared_tools constants imported at line 13
sec_in_day == 86400
\* 365.25 as a fixed-point value
day_in_yr == 36525
\* np.pi as a fixed-point value
pi == 314

VARIABLES
  \* construction outcome of the VegetationModel object: "new", "ready", "error"
  status,
  \* host (pyDeltaRCM.DeltaModel) configuration and state read by the hooks
  L, W, vegetation, dry_depth, SLR, H_SL, _dt, eta0, eta, depth, mod_water_weight,
  \* yaml parameters declared by hook_import_files
  p_veg_d_root, p_veg_d_stem, p_veg_K, p_veg_r, p_veg_est_flood_dur,
  p_veg_est_inter_dur, p_veg_est_depth, p_veg_est_roc, p_veg_est_init,
  \* attributes set by hook_after_create_domain
  veg_frac, veg_alpha, veg_d_root, veg_d_stem, veg_K, veg_r, eta_change,
  veg_est_flood_duration, veg_est_interflood_duration, veg_est_depth,
  veg_est_roc, veg_est_init, time_since_interflood, veg_b, veg_A,
  \* observations of the last hook_after_route_sediment call
  last_hook, old_frac, old_time, old_H_SL, mort_frac, raw_frac, grew,
  \* host fields used by topo_diffusion
  qs, cell_type, cf, N_crossdiff, diffusion_multiplier,
  \* topo_diffusion calls so far, and the elevation the last one started from
  n_diffusion, old_eta

host == <<L, W, vegetation, dry_depth, SLR>>
yaml == <<p_veg_d_root, p_veg_d_stem, p_veg_K, p_veg_r, p_veg_est_flood_dur,
          p_veg_est_inter_dur, p_veg_est_depth, p_veg_est_roc, p_veg_est_init>>
derived == <<veg_d_root, veg_d_stem, veg_K, veg_r, veg_est_flood_duration,
             veg_est_interflood_duration, veg_est_depth, veg_est_roc,
             veg_est_init, veg_b, veg_A>>
observed == <<old_frac, old_time, old_H_SL, mort_frac, raw_frac, grew>>
diffusion == <<qs, cell_type, cf, N_crossdiff, diffusion_multiplier,
               n_diffusion, old_eta>>

vars == <<status, last_hook, host, H_SL, _dt, eta0, eta, depth, mod_water_weight, yaml,
          veg_frac, veg_alpha, eta_change, time_since_interflood, derived,
          observed, diffusion>>

----------------------------------------------------------------------------
(* Fixed-point arithmetic *)

Abs(x) == IF x < 0 THEN -x ELSE x

\* x * y of two fixed-point values
FMul(x, y) == (x * y) \div Scale

\* x / y of two fixed-point values, y # 0
FDiv(x, y) == (x * Scale) \div y

\* np.clip(x, lo, hi) of one value
Clip(x, lo, hi) == IF x < lo THEN lo ELSE IF x > hi THEN hi ELSE x

Cells(l, w) == (1..l) \X (1..w)

\* np.zeros_like(f), np.ones_like(f)
zeros_like(f) == [c \in DOMAIN f |-> 0]
ones_like(f) == [c \in DOMAIN f |-> One]

----------------------------------------------------------------------------
(* Bounds of the model *)

\* growth events after which the host stops calling the hooks
MaxGrowthEvents == 2

\* topo_diffusion calls after which the host stops
MaxDiffusionCalls == 2

\* largest number of diffusion sub-iterations per call
MaxCrossdiff == 2

\* timestep durations the host supplies (seconds)
DtValues == {43200, 86400}

\* bed elevations after sediment routing, relative to eta0 = 0
EtaValues == {-20, 0, 10}

\* water depths the host supplies
DepthValues == {5, 30, 150}

----------------------------------------------------------------------------
(* VegetationModel.__init__ and hook_after_create_domain *)

\* threshold for vegetation to affect flow weighting: 0.7 / d_stem / K
density_threshold(d_stem, K) == FDiv(FDiv((7 * One) \div 10, d_stem), K)

\* pi * d_stem**2 * K * ((4 / d_stem / K) - b), the divisor of veg_A
veg_A_divisor(d_stem, K) ==
  FMul(FMul(FMul(pi, FMul(d_stem, d_stem)), K),
       FDiv(FDiv(4 * One, d_stem), K) - density_threshold(d_stem, K))

\* 0.88 * 4 / divisor
flow_resistance_scale(d_stem, K) ==
  FDiv(FMul((88 * One) \div 100, 4 * One), veg_A_divisor(d_stem, K))

\* the divisions of lines 154-160 raise ZeroDivisionError on a zero divisor
\* (the yaml values are Python scalars)
ZeroDivision ==
  \/ p_veg_d_stem = 0
  \/ p_veg_K = 0
  \/ veg_A_divisor(p_veg_d_stem, p_veg_K) = 0

\* p_veg_r / (sec_in_day * day_in_yr), in units of 1 / RateScale per second;
\* numerator and divisor are both reduced by Scale to stay within 32 bits
per_second(rate_per_yr) ==
  (rate_per_yr * (RateScale \div (Scale * Scale)))
    \div (((sec_in_day \div Scale) * day_in_yr) \div Scale)

\* p * sec_in_day for a duration p in days
days_to_seconds(p) == (p * sec_in_day) \div Scale

hook_after_create_domain ==
  /\ veg_frac' = zeros_like(depth)
  /\ veg_alpha' = ones_like(depth)
  /\ veg_d_root' = p_veg_d_root
  /\ veg_d_stem' = p_veg_d_stem
  /\ veg_K' = p_veg_K
  /\ veg_r' = per_second(p_veg_r)
  /\ eta_change' = zeros_like(depth)
  /\ veg_est_flood_duration' = days_to_seconds(p_veg_est_flood_dur)
  /\ veg_est_interflood_duration' = days_to_seconds(p_veg_est_inter_dur)
  /\ veg_est_depth' = p_veg_est_depth
  /\ veg_est_roc' = p_veg_est_roc
  /\ veg_est_init' = p_veg_est_init
  /\ time_since_interflood' = 0
  /\ veg_b' = density_threshold(p_veg_d_stem, p_veg_K)
  /\ veg_A' = flow_resistance_scale(p_veg_d_stem, p_veg_K)

\* VegetationModel(input_file, ...): the host constructor, then
\* hook_after_create_domain.  The hook is idempotent, so the call the host
\* constructor makes itself and the explicit call of line 61 are one step.
VegetationModel_init ==
  /\ status = "new"
  /\ IF ZeroDivision
       THEN /\ status' = "error"
            /\ UNCHANGED <<veg_frac, veg_alpha, eta_change,
                           time_since_interflood, derived>>
       ELSE /\ status' = "ready"
            /\ hook_after_create_domain
  /\ UNCHANGED <<last_hook, host, H_SL, _dt, eta0, eta, depth,
                 mod_water_weight, yaml, observed, diffusion>>

----------------------------------------------------------------------------
(* hook_run_water_iteration *)

\* -0.099 * veg_frac + 0.1 (the coefficient is in thousandths)
bank_stability(f) == ((-99 * f) \div 1000) + (One \div 10)

\* 1 - (veg_A * pi * d_stem**2 * K * (veg_frac - veg_b)) / 4
candidate_weight(f) ==
  One - (FMul(FMul(FMul(FMul(veg_A, pi), FMul(veg_d_stem, veg_d_stem)),
                   veg_K), f - veg_b) \div 4)

\* lines 181-183 for one cell without the final np.clip
water_weight_unclipped(f) ==
  IF f >= veg_b THEN candidate_weight(f) ELSE One

\* lines 181-183 for one cell: reset to 1, assign above threshold, clip
water_weight(f) ==
  Clip(IF f >= veg_b THEN candidate_weight(f) ELSE One, 0, One)

hook_run_water_iteration ==
  /\ status = "ready"
  /\ veg_alpha' = [c \in DOMAIN veg_frac |-> bank_stability(veg_frac[c])]
  /\ mod_water_weight' = [c \in DOMAIN veg_frac |-> water_weight(veg_frac[c])]
  /\ last_hook' = "water"
  /\ UNCHANGED <<status, host, H_SL, _dt, eta0, eta, depth, yaml, veg_frac,
                 eta_change, time_since_interflood, derived, observed,
                 diffusion>>

----------------------------------------------------------------------------
(* hook_after_route_sediment, _vegetation_mortality, _vegetation_growth *)

\* one cell with the proportional term computed from the fraction the cell
\* had before the two hard-zero rules
mortality_cell_stale(f, de, h) ==
  LET buried == IF Abs(de) >= veg_d_root THEN 0 ELSE f
      drowned == IF h > One THEN 0 ELSE buried
      where_eta_change == Abs(de) > 0 /\ Abs(de) < veg_d_root
      possible == FMul(f, One - FDiv(Abs(de), veg_d_root))
  IN  IF where_eta_change THEN possible ELSE drowned

\* one cell of _vegetation_mortality: fraction f, elevation change de, depth h
mortality_cell(f, de, h) ==
  LET buried == IF Abs(de) >= veg_d_root THEN 0 ELSE f
      drowned == IF h > One THEN 0 ELSE buried
      where_eta_change == Abs(de) > 0 /\ Abs(de) < veg_d_root
      \* read only under the mask, where veg_d_root > 0
      possible == FMul(drowned, One - FDiv(Abs(de), veg_d_root))
  IN  IF where_eta_change THEN possible ELSE drowned

_vegetation_mortality(frac, de, h) ==
  [c \in DOMAIN frac |-> mortality_cell(frac[c], de[c], h[c])]

\* establishment mask of the 'code' variant for one cell
where_valid(f, de, h) ==
  LET where_nochange == de < FMul(veg_est_roc, veg_d_root)
      where_depth == h < veg_est_depth
      where_noveg == f = 0
      where_dry == h < dry_depth
  IN  (where_dry \/ (where_depth /\ where_nochange)) /\ where_noveg

\* interflood_duration * (1 - f) * veg_r * f
dveg_frac(f) ==
  FMul((FMul(veg_est_interflood_duration, One - f) * veg_r)
         \div (RateScale \div Scale), f)

\* one cell with the growth increment computed before establishment
growth_cell_no_step(f, de, h) ==
  LET established == IF where_valid(f, de, h) THEN veg_est_init ELSE f
  IN  established + dveg_frac(f)

\* one cell of lines 281-289
growth_cell(f, de, h) ==
  LET established == IF where_valid(f, de, h) THEN veg_est_init ELSE f
  IN  established + dveg_frac(established)

\* the fraction field _vegetation_growth leaves
_vegetation_growth(frac, de, h) ==
  [c \in DOMAIN frac |-> growth_cell(frac[c], de[c], h[c])]

\* sea level advanced by the flood duration instead
sea_level_flood == H_SL + SLR * veg_est_flood_duration

\* the sea level _vegetation_growth leaves (line 295)
sea_level_after_growth == H_SL + SLR * veg_est_interflood_duration

growth_due_strict(timer) == timer > veg_est_flood_duration

\* the condition of line 200
growth_due(timer) == timer >= veg_est_flood_duration

vegetation_always == TRUE

\* the condition of line 192
vegetation_on == vegetation

\* growth before mortality
rules_growth_first(frac, de, h, fire) ==
  IF fire THEN _vegetation_mortality(_vegetation_growth(frac, de, h), de, h)
          ELSE _vegetation_mortality(frac, de, h)

\* lines 197-203: mortality every call, then growth when due
rules(frac, de, h, fire) ==
  LET dead == _vegetation_mortality(frac, de, h)
  IN  IF fire THEN _vegetation_growth(dead, de, h) ELSE dead

clip_below_only(f) == IF f < 0 THEN 0 ELSE f

\* line 208 for one cell
clip_fraction(f) == Clip(f, 0, One)

hook_after_route_sediment ==
  /\ status = "ready"
  /\ H_SL < MaxGrowthEvents * SLR * veg_est_interflood_duration
  /\ \E new_eta \in [DOMAIN eta -> EtaValues],
        new_depth \in [DOMAIN depth -> DepthValues],
        dt \in DtValues :
       LET change == [c \in DOMAIN eta |-> new_eta[c] - eta0[c]]
           timer == time_since_interflood + dt
           fire == growth_due(timer)
           unclipped == IF vegetation_on
                          THEN rules(veg_frac, change, new_depth, fire)
                          ELSE veg_frac
       IN  /\ eta' = new_eta
           /\ depth' = new_depth
           /\ _dt' = dt
           /\ eta_change' = change
           /\ time_since_interflood' =
                IF vegetation_on THEN (IF fire THEN 0 ELSE timer)
                                 ELSE time_since_interflood
           /\ H_SL' = IF vegetation_on /\ fire THEN sea_level_after_growth
                                              ELSE H_SL
           /\ veg_frac' = [c \in DOMAIN veg_frac |-> clip_fraction(unclipped[c])]
           /\ old_frac' = veg_frac
           /\ old_time' = time_since_interflood
           /\ old_H_SL' = H_SL
           /\ mort_frac' = IF vegetation_on
                             THEN _vegetation_mortality(veg_frac, change, new_depth)
                             ELSE veg_frac
           /\ raw_frac' = unclipped
           /\ grew' = (vegetation_on /\ fire)
  /\ last_hook' = "sediment"
  /\ UNCHANGED <<status, host, eta0, mod_water_weight, yaml, veg_alpha,
                 derived, diffusion>>

----------------------------------------------------------------------------
(* Specification of the hooks on a valid configuration *)

ValidConfigs ==
  [d_root : {20}, d_stem : {60}, K : {1000}, r : {1000}, flood_dur : {100},
   inter_dur : {7500}, est_depth : {50}, est_roc : {50}, est_init : {50}]

InitConfig(c) ==
  /\ p_veg_d_root = c.d_root
  /\ p_veg_d_stem = c.d_stem
  /\ p_veg_K = c.K
  /\ p_veg_r = c.r
  /\ p_veg_est_flood_dur = c.flood_dur
  /\ p_veg_est_inter_dur = c.inter_dur
  /\ p_veg_est_depth = c.est_depth
  /\ p_veg_est_roc = c.est_roc
  /\ p_veg_est_init = c.est_init

\* the object before hook_after_create_domain has run: no vegetation attribute
\* is set yet (modelled as 0 / zero fields)
InitHost(l, w) ==
  /\ status = "new"
  /\ last_hook = "none"
  /\ L = l /\ W = w
  /\ dry_depth = 10
  /\ H_SL = 0
  /\ _dt = 0
  /\ eta0 = [c \in Cells(l, w) |-> 0]
  /\ eta = [c \in Cells(l, w) |-> 0]
  /\ depth = [c \in Cells(l, w) |-> 0]
  /\ mod_water_weight = [c \in Cells(l, w) |-> One]
  /\ veg_frac = [c \in Cells(l, w) |-> 0]
  /\ veg_alpha = [c \in Cells(l, w) |-> 0]
  /\ eta_change = [c \in Cells(l, w) |-> 0]
  /\ time_since_interflood = 0
  /\ veg_d_root = 0 /\ veg_d_stem = 0 /\ veg_K = 0 /\ veg_r = 0
  /\ veg_est_flood_duration = 0 /\ veg_est_interflood_duration = 0
  /\ veg_est_depth = 0 /\ veg_est_roc = 0 /\ veg_est_init = 0
  /\ veg_b = 0 /\ veg_A = 0
  /\ old_frac = [c \in Cells(l, w) |-> 0]
  /\ old_time = 0
  /\ old_H_SL = 0
  /\ mort_frac = [c \in Cells(l, w) |-> 0]
  /\ raw_frac = [c \in Cells(l, w) |-> 0]
  /\ grew = FALSE
  /\ qs = [c \in Cells(l, w) |-> 0]
  /\ cell_type = [c \in Cells(l, w) |-> 0]
  /\ cf = [c \in Cells(l, w) |-> 0]
  /\ N_crossdiff = 0
  /\ diffusion_multiplier = 0
  /\ n_diffusion = 0
  /\ old_eta = [c \in Cells(l, w) |-> 0]

Init ==
  /\ InitHost(1, 2)
  /\ vegetation \in BOOLEAN
  /\ SLR = 2
  /\ \E c \in ValidConfigs : InitConfig(c)

Next ==
  \/ VegetationModel_init
  \/ hook_run_water_iteration
  \/ hook_after_route_sediment

Spec == Init /\ [][Next]_vars

----------------------------------------------------------------------------
(* Properties of the hooks *)

Ready == status = "ready"

\* a hook_after_route_sediment call has completed with vegetation enabled
\* (_dt is 0 until the host has run a timestep)
RulesRan == Ready /\ vegetation /\ _dt > 0

\* the establishment condition of section 4.5 (code variant), apart from the
\* zero-fraction requirement
Eligible(c) ==
  \/ depth[c] < dry_depth
  \/ /\ depth[c] < veg_est_depth
     /\ eta_change[c] < (veg_est_roc * veg_d_root) \div Scale

\* f0 + interflood_duration * (1 - f0) * growth_rate * f0
EstablishedAndGrown ==
  LET seconds == (veg_est_interflood_duration * (One - veg_est_init)) \div Scale
      factor == (seconds * veg_r) \div (RateScale \div Scale)
  IN  veg_est_init + ((factor * veg_est_init) \div Scale)

\* C1: after every hook_after_route_sediment call, with vegetation enabled or
\* disabled, every cell of the vegetation fraction field is within [0,1].
C1_FractionInRange ==
  Ready => \A c \in DOMAIN veg_frac : veg_frac[c] >= 0 /\ veg_frac[c] <= One

\* a growth step overshot 1 and the call left the cell at exactly 1
C1_Witness ==
  /\ Ready /\ last_hook = "sediment"
  /\ \E c \in DOMAIN veg_frac : raw_frac[c] > One /\ veg_frac[c] = One

\* C2: with vegetation enabled each call adds the timestep to the timer;
\* growth fires in a call exactly when the incremented timer is >= the flood
\* duration, and after such a call the timer is exactly 0.
C2_TimerAndGrowth ==
  (Ready /\ vegetation /\ _dt > 0) =>
    /\ grew <=> (old_time + _dt >= veg_est_flood_duration)
    /\ grew => time_since_interflood = 0
    /\ ~grew => time_since_interflood = old_time + _dt

\* growth fired on a call that found time already accumulated below the
\* flood duration
C2_Witness ==
  /\ RulesRan /\ grew
  /\ old_time > 0 /\ old_time < veg_est_flood_duration
  /\ time_since_interflood = 0

\* C3: a call in which growth fires advances H_SL by exactly
\* SLR * interflood duration in seconds; any other call leaves H_SL unchanged.
C3_SeaLevel ==
  Ready =>
    /\ grew => H_SL = old_H_SL + SLR * ((p_veg_est_inter_dur * sec_in_day) \div Scale)
    /\ ~grew => H_SL = old_H_SL

\* a second growth event advanced an already advanced sea level
C3_Witness ==
  /\ RulesRan /\ grew /\ SLR > 0
  /\ old_H_SL > 0 /\ H_SL > old_H_SL

\* C4: with vegetation disabled the fraction of every cell stays 0 and the hook
\* never changes the timer or the sea level; it only recomputes the elevation
\* change and applies the clamp.
C4_Disabled ==
  (Ready /\ ~vegetation) =>
    /\ \A c \in DOMAIN veg_frac : veg_frac[c] = 0
    /\ time_since_interflood = 0
    /\ H_SL = 0
    /\ ~grew
    /\ \A c \in DOMAIN eta : eta_change[c] = eta[c] - eta0[c]

\* a disabled model was called with a timestep that would have fired growth on
\* a dry cell whose bed changed
C4_Witness ==
  /\ Ready /\ ~vegetation /\ last_hook = "sediment"
  /\ _dt >= veg_est_flood_duration
  /\ \E c \in DOMAIN veg_frac :
       depth[c] < dry_depth /\ eta_change[c] # 0 /\ veg_frac[c] = 0

\* C5: immediately after _vegetation_mortality returns, every cell with
\* |elevation change| >= root depth and every cell with depth > 1 has fraction
\* exactly 0, whatever its prior fraction and elevation change.
C5_MortalityZero ==
  (Ready /\ vegetation) =>
    \A c \in DOMAIN mort_frac :
      (Abs(eta_change[c]) >= veg_d_root \/ depth[c] > One) => mort_frac[c] = 0

\* a vegetated cell deeper than 1 with a partial elevation change was zeroed
C5_Witness ==
  /\ RulesRan
  /\ \E c \in DOMAIN mort_frac :
       /\ old_frac[c] > 0 /\ depth[c] > One
       /\ Abs(eta_change[c]) > 0 /\ Abs(eta_change[c]) < veg_d_root
       /\ mort_frac[c] = 0

\* C6: after hook_run_water_iteration the weight of a cell is 1 if its fraction
\* is below b, else 1 - A*pi*d_stem^2*K*(fraction - b)/4 clamped into [0,1];
\* every weight is in [0,1].
C6_WaterWeight ==
  (Ready /\ last_hook = "water") =>
    \A c \in DOMAIN mod_water_weight :
      /\ mod_water_weight[c] >= 0 /\ mod_water_weight[c] <= One
      /\ veg_frac[c] < veg_b => mod_water_weight[c] = One
      /\ veg_frac[c] >= veg_b =>
           mod_water_weight[c] =
             LET a_pi == (veg_A * pi) \div Scale
                 d_sq == (veg_d_stem * veg_d_stem) \div Scale
                 stems == (((a_pi * d_sq) \div Scale) * veg_K) \div Scale
                 part == (stems * (veg_frac[c] - veg_b)) \div Scale
                 w == One - (part \div 4)
             IN  IF w < 0 THEN 0 ELSE IF w > One THEN One ELSE w

\* one call left a cell below the threshold at 1, or a cell above it at a
\* weight strictly inside (0,1), together with a cell clamped to 0
C6_Witness ==
  /\ Ready /\ last_hook = "water"
  /\ \E c, d \in DOMAIN mod_water_weight :
       /\ veg_frac[c] >= veg_b /\ candidate_weight(veg_frac[c]) < 0
       /\ mod_water_weight[c] = 0
       /\ veg_frac[d] > 0
       /\ \/ veg_frac[d] < veg_b /\ mod_water_weight[d] = One
          \/ /\ veg_frac[d] >= veg_b
             /\ mod_water_weight[d] > 0 /\ mod_water_weight[d] < One

\* C8: in one growth invocation every cell with fraction 0 and depth below the
\* dry threshold ends at f0 + interflood * (1 - f0) * rate * f0, for any
\* elevation change; cells with fraction 0 that are not eligible remain 0.
C8_EstablishAndGrow ==
  (Ready /\ grew) =>
    \A c \in DOMAIN raw_frac :
      mort_frac[c] = 0 =>
        /\ depth[c] < dry_depth => raw_frac[c] = EstablishedAndGrown
        /\ ~Eligible(c) => raw_frac[c] = 0

\* a dry bare cell whose elevation change exceeds the rate-of-change threshold
\* was established and grown beyond f0
C8_Witness ==
  /\ RulesRan /\ grew
  /\ \E c \in DOMAIN raw_frac :
       /\ mort_frac[c] = 0 /\ depth[c] < dry_depth
       /\ eta_change[c] >= (veg_est_roc * veg_d_root) \div Scale
       /\ raw_frac[c] > veg_est_init

\* C10: in a call in which growth fires, an establishment-eligible cell that
\* mortality set to 0 ends the call with the established-and-grown nonzero
\* fraction; in a call without growth such a cell ends at 0.
C10_MortalityThenGrowth ==
  (Ready /\ vegetation) =>
    \A c \in DOMAIN veg_frac :
      (old_frac[c] > 0 /\ mort_frac[c] = 0 /\ Eligible(c)) =>
        /\ grew => /\ veg_frac[c] > 0
                   /\ veg_frac[c] =
                        (IF EstablishedAndGrown > One THEN One
                                                      ELSE EstablishedAndGrown)
        /\ ~grew => veg_frac[c] = 0

\* a vegetated, dry cell buried by more than the root depth ended a growth
\* call re-established
C10_Witness ==
  /\ RulesRan /\ grew
  /\ \E c \in DOMAIN veg_frac :
       /\ old_frac[c] > 0 /\ Abs(eta_change[c]) >= veg_d_root
       /\ mort_frac[c] = 0 /\ Eligible(c)
       /\ veg_frac[c] > 0

----------------------------------------------------------------------------
(* Construction on an arbitrary configuration *)

\* a valid configuration, or one with a single constant zeroed or negated
AnyConfigs ==
  ValidConfigs
    \cup {[c EXCEPT ![k] = 0] : c \in ValidConfigs, k \in DOMAIN CHOOSE v \in ValidConfigs : TRUE}
    \cup {[c EXCEPT !.d_root = -c.d_root] : c \in ValidConfigs}

InitAnyConfig ==
  /\ InitHost(1, 2)
  /\ vegetation = TRUE
  /\ SLR = 2
  /\ \E c \in AnyConfigs : InitConfig(c)

SpecAnyConfig == InitAnyConfig /\ [][Next]_vars

AllPositive ==
  /\ p_veg_d_root > 0 /\ p_veg_d_stem > 0 /\ p_veg_K > 0 /\ p_veg_r > 0
  /\ p_veg_est_flood_dur > 0 /\ p_veg_est_inter_dur > 0
  /\ p_veg_est_depth > 0 /\ p_veg_est_roc > 0 /\ p_veg_est_init > 0

\* C7: initialisation fails, before any timestep hook executes, whenever an
\* input constant is non-positive or d_stem * K is zero: a constructed model,
\* and any model that ran a hook, has only positive constants.
C7_InvalidConfigRejected ==
  (status = "ready" \/ last_hook # "none") => AllPositive

----------------------------------------------------------------------------
(* topo_diffusion *)

Offsets == (-1..1) \X (-1..1)

\* the 3 x 3 kernels of the host (pyDeltaRCM init_tools), indexed from the centre
kernel1 == [k \in Offsets |-> IF k = <<0, 0>> THEN -8 ELSE 1]
kernel2 == [k \in Offsets |-> IF k = <<0, 0>> THEN 0 ELSE 1]

RECURSIVE SumOver(_, _)
SumOver(S, g) ==
  IF S = {} THEN 0
  ELSE LET k == CHOOSE x \in S : TRUE IN g[k] + SumOver(S \ {k}, g)

\* scipy.ndimage.convolve(f, kernel, mode='constant'): cells outside the grid
\* read as 0
convolve(f, kernel) ==
  [c \in DOMAIN f |->
     SumOver(Offsets,
             [k \in Offsets |->
                LET q == <<c[1] - k[1], c[2] - k[2]>>
                IN  kernel[k] * (IF q \in DOMAIN f THEN f[q] ELSE 0)])]

\* the stability field used unconvolved
stability_plain(alpha) == alpha

\* d of line 311
stability(alpha) == convolve(alpha, kernel2)

\* one pass of the loop body of lines 307-319 from elevation e: the flux cf
diffusion_flux(e) ==
  LET a == convolve(e, kernel1)
      b == convolve(qs, kernel2)
      c == convolve([x \in DOMAIN e |-> FMul(qs[x], e[x])], kernel2)
      d == stability(veg_alpha)
  IN  [x \in DOMAIN e |->
         IF cell_type[x] = -2 \/ x[1] = 1 THEN 0
         ELSE FMul(FMul(d[x], diffusion_multiplier),
                   FMul(qs[x], a[x]) - FMul(e[x], b[x]) + c[x])]

\* the elevation after n passes of the loop from elevation e
RECURSIVE diffused(_, _)
diffused(e, n) ==
  IF n = 0 THEN e
  ELSE LET flux == diffusion_flux(e)
       IN  diffused([x \in DOMAIN e |-> e[x] + flux[x]], n - 1)

\* the flux of the last of n passes from elevation e (n > 0)
RECURSIVE last_flux(_, _)
last_flux(e, n) ==
  IF n = 1 THEN diffusion_flux(e)
  ELSE LET flux == diffusion_flux(e)
       IN  last_flux([x \in DOMAIN e |-> e[x] + flux[x]], n - 1)

topo_diffusion ==
  /\ status = "ready"
  /\ n_diffusion < MaxDiffusionCalls
  /\ eta' = diffused(eta, N_crossdiff)
  /\ cf' = IF N_crossdiff = 0 THEN cf ELSE last_flux(eta, N_crossdiff)
  /\ old_eta' = eta
  /\ n_diffusion' = n_diffusion + 1
  /\ last_hook' = "diffusion"
  /\ UNCHANGED <<status, host, H_SL, _dt, eta0, depth, mod_water_weight, yaml,
                 veg_frac, veg_alpha, eta_change, time_since_interflood,
                 derived, observed, qs, cell_type, N_crossdiff,
                 diffusion_multiplier>>

\* The host's own diffusion pass (pyDeltaRCM sed_tools), as section 4.6
\* describes it: the same flux without the stability factor.  m is the
\* diffusion multiplier of each cell.
host_flux(e, m) ==
  LET a == convolve(e, kernel1)
      b == convolve(qs, kernel2)
      c == convolve([x \in DOMAIN e |-> FMul(qs[x], e[x])], kernel2)
  IN  [x \in DOMAIN e |->
         IF cell_type[x] = -2 \/ x[1] = 1 THEN 0
         ELSE FMul(m[x], FMul(qs[x], a[x]) - FMul(e[x], b[x]) + c[x])]

RECURSIVE host_diffused(_, _, _)
host_diffused(e, m, n) ==
  IF n = 0 THEN e
  ELSE LET flux == host_flux(e, m)
       IN  host_diffused([x \in DOMAIN e |-> e[x] + flux[x]], m, n - 1)

----------------------------------------------------------------------------
(* Specification of the diffusion override on a 3 x 3 grid *)

\* a bed that is flat except for one cell
Bump(l, w, at, height) == [c \in Cells(l, w) |-> IF c = at THEN height ELSE 0]

InitDiffusion ==
  /\ status = "new"
  /\ last_hook = "none"
  /\ L = 3 /\ W = 3
  /\ vegetation = TRUE
  /\ SLR = 2
  /\ dry_depth = 10
  /\ H_SL = 0
  /\ _dt = 0
  /\ \E c \in ValidConfigs : InitConfig(c)
  /\ eta0 = [c \in Cells(3, 3) |-> 0]
  /\ \E at \in Cells(3, 3), height \in {-100, 200} : eta = Bump(3, 3, at, height)
  /\ depth = [c \in Cells(3, 3) |-> 0]
  /\ mod_water_weight = [c \in Cells(3, 3) |-> One]
  /\ veg_frac = [c \in Cells(3, 3) |-> 0]
  /\ veg_alpha = [c \in Cells(3, 3) |-> 0]
  /\ eta_change = [c \in Cells(3, 3) |-> 0]
  /\ time_since_interflood = 0
  /\ veg_d_root = 0 /\ veg_d_stem = 0 /\ veg_K = 0 /\ veg_r = 0
  /\ veg_est_flood_duration = 0 /\ veg_est_interflood_duration = 0
  /\ veg_est_depth = 0 /\ veg_est_roc = 0 /\ veg_est_init = 0
  /\ veg_b = 0 /\ veg_A = 0
  /\ old_frac = [c \in Cells(3, 3) |-> 0]
  /\ old_time = 0
  /\ old_H_SL = 0
  /\ mort_frac = [c \in Cells(3, 3) |-> 0]
  /\ raw_frac = [c \in Cells(3, 3) |-> 0]
  /\ grew = FALSE
  /\ \E q \in {10, 30}, at \in {<<2, 2>>, <<3, 1>>} :
       qs = [c \in Cells(3, 3) |-> IF c = at THEN q ELSE 10]
  /\ \E wall \in {<<1, 1>>, <<2, 2>>, <<3, 3>>} :
       cell_type = [c \in Cells(3, 3) |-> IF c = wall THEN -2 ELSE 0]
  /\ cf = [c \in Cells(3, 3) |-> 0]
  /\ N_crossdiff \in 0..MaxCrossdiff
  /\ diffusion_multiplier = 5
  /\ n_diffusion = 0
  /\ old_eta = eta

NextDiffusion ==
  \/ VegetationModel_init
  \/ hook_run_water_iteration
  \/ topo_diffusion

SpecDiffusion == InitDiffusion /\ [][NextDiffusion]_vars

AllOnes == \A c \in DOMAIN veg_alpha : veg_alpha[c] = One

\* the cells of the grid next to c, diagonals included
Neighbours(c) ==
  {q \in Cells(L, W) : q # c /\ Abs(q[1] - c[1]) <= 1 /\ Abs(q[2] - c[2]) <= 1}

====
